---------------------------- MODULE Spec2Model ----------------------------
(***************************************************************************)
(* A* graph search for the target-practice maze (homework1/pathfinder.py)  *)
(* and the alpha-beta minimax player of Tic-Tac-Total                      *)
(* (homework2/t3_player.py).                                               *)
(*                                                                         *)
(* Locations are pairs <<row, col>>.  A search state is the pair           *)
(* <<location, remaining targets>> that the code stores in the field       *)
(* player_loc of a SearchTreeNode.  Nodes live in the sequence `nodes`     *)
(* (Python object identity = index, creation order = index order); the     *)
(* frontier is the heap list of a queue.PriorityQueue, holding indices.    *)
(***************************************************************************)
EXTENDS Integers, Sequences, FiniteSets, TLC

(***************************************************************************)
(* Bounds of the family of problem oracles explored.                       *)
(***************************************************************************)
Rows == 2
Cols == 3
MaxTargets == 3
MaxWalls == 2
MaxMud == 1
MaxCost == 2

(***************************************************************************)
(* The problem oracle (maze_problem.MazeProblem, not part of the sources): *)
(* a grid whose cells are open or walls, a start cell, a set of target     *)
(* cells, and a cost for acting in each cell.                              *)
(***************************************************************************)
MoveCost == 1

Locs == (0 .. Rows - 1) \X (0 .. Cols - 1)

\* The action labels, in the order in which the oracle's mapping lists them.
Actions == <<"N", "S", "E", "W">>

Offset(a) ==
    CASE a = "N" -> <<-1, 0>>
      [] a = "S" -> <<1, 0>>
      [] a = "E" -> <<0, 1>>
      [] a = "W" -> <<0, -1>>

SubsetsUpTo(S, n) == {T \in SUBSET S : Cardinality(T) <= n}

\* Cost tables: MoveCost everywhere except on at most MaxMud cells.
CostTables ==
    {c \in [Locs -> 0 .. MaxCost] :
        Cardinality({l \in Locs : c[l] # MoveCost}) <= MaxMud}

Problems ==
    {p \in [loc : Locs, targets : SubsetsUpTo(Locs, MaxTargets),
            walls : SubsetsUpTo(Locs, MaxWalls), cost : CostTables] :
        /\ p.loc \notin p.walls
        /\ p.loc \notin p.targets
        /\ p.targets \cap p.walls = {}}

get_initial_loc(p) == p.loc

get_initial_targets(p) == p.targets

Step(l, a) == <<l[1] + Offset(a)[1], l[2] + Offset(a)[2]>>

\* The actions legal at location l, as a subsequence of Actions.
LegalActions(p, l) ==
    SelectSeq(Actions, LAMBDA a : Step(l, a) \in Locs \ p.walls)

\* transitions(location, remaining): one record per legal action.
get_transitions(p, l, targets_left) ==
    [i \in 1 .. Len(LegalActions(p, l)) |->
        LET a == LegalActions(p, l)[i]
        IN  [action |-> a,
             next_loc |-> Step(l, a),
             targets_hit |-> {Step(l, a)} \cap targets_left]]

get_transition_cost(p, a, l) == p.cost[l]

(***************************************************************************)
(* The heuristic.                                                          *)
(***************************************************************************)
Abs(x) == IF x < 0 THEN -x ELSE x

manhattan_distance(a, b) == Abs(a[1] - b[1]) + Abs(a[2] - b[2])

RECURSIVE SumDistances(_, _)
SumDistances(player_loc, targets) ==
    IF targets = {} THEN 0
    ELSE LET t == CHOOSE y \in targets : TRUE
         IN  manhattan_distance(player_loc, t)
                + SumDistances(player_loc, targets \ {t})

total_target_distance(player_loc, targets_left) ==
    IF targets_left = {} THEN 0
    ELSE SumDistances(player_loc, targets_left)

(***************************************************************************)
(* SearchTreeNode and its generated ordering.  @dataclass(order=True)      *)
(* compares the field tuples (f, h, g, player_loc, action, parent) the way *)
(* Python compares tuples: the first pair of unequal fields decides, with  *)
(* that field's own "<".  player_loc is (location, frozenset): locations   *)
(* compare lexicographically, frozensets by proper inclusion.  Parents are *)
(* nodes again (0 stands for None) and compare by value.                   *)
(***************************************************************************)
\* SearchTreeNode with the path cost left at the default 0.
SearchTreeNode_no_g(f, h, g, loc, targets, action, parent) ==
    [f |-> f, h |-> h, g |-> 0, loc |-> loc, targets |-> targets,
     action |-> action, parent |-> parent]

SearchTreeNode(f, h, g, loc, targets, action, parent) ==
    [f |-> f, h |-> h, g |-> g, loc |-> loc, targets |-> targets,
     action |-> action, parent |-> parent]

\* Python orders strings by code point: "" < "E" < "N" < "S" < "W".
ActionOrd(a) ==
    CASE a = "" -> 0
      [] a = "E" -> 69
      [] a = "N" -> 78
      [] a = "S" -> 83
      [] a = "W" -> 87

LocLess(a, b) == IF a[1] # b[1] THEN a[1] < b[1] ELSE a[2] < b[2]

RECURSIVE NodeEq(_, _, _)
NodeEq(ns, i, j) ==
    IF i = 0 \/ j = 0 THEN i = j
    ELSE /\ ns[i].f = ns[j].f
         /\ ns[i].h = ns[j].h
         /\ ns[i].g = ns[j].g
         /\ ns[i].loc = ns[j].loc
         /\ ns[i].targets = ns[j].targets
         /\ ns[i].action = ns[j].action
         /\ NodeEq(ns, ns[i].parent, ns[j].parent)

\* ns[i] < ns[j].  The root is the only node without a parent and the only
\* one whose action is "", so a parent None is never compared with a node.
RECURSIVE NodeLess(_, _, _)
NodeLess(ns, i, j) ==
    LET a == ns[i]
        b == ns[j]
    IN  IF a.f # b.f THEN a.f < b.f
        ELSE IF a.h # b.h THEN a.h < b.h
        ELSE IF a.g # b.g THEN a.g < b.g
        ELSE IF a.loc # b.loc THEN LocLess(a.loc, b.loc)
        ELSE IF a.targets # b.targets
             THEN a.targets \subseteq b.targets
        ELSE IF a.action # b.action
             THEN ActionOrd(a.action) < ActionOrd(b.action)
        ELSE IF a.parent = 0 \/ b.parent = 0 THEN FALSE
        ELSE IF NodeEq(ns, a.parent, b.parent) THEN FALSE
        ELSE NodeLess(ns, a.parent, b.parent)

(***************************************************************************)
(* queue.PriorityQueue: put is heapq.heappush, get is heapq.heappop, on a  *)
(* list.  Position p of the Python list is element p + 1 of the sequence.  *)
(***************************************************************************)
\* The one element of a singleton.  Writing a step of a loop as
\* Only({Rest(x) : x \in {e}}) evaluates e once, as an assignment does.
Only(S) == CHOOSE x \in S : TRUE

RECURSIVE SiftDown(_, _, _, _, _)
SiftDown(ns, heap, newitem, startpos, pos) ==
    IF pos > startpos
    THEN LET parentpos == (pos - 1) \div 2
             parent == heap[parentpos + 1]
         IN  IF NodeLess(ns, newitem, parent)
             THEN Only({SiftDown(ns, moved, newitem, startpos, parentpos) :
                          moved \in {[heap EXCEPT ![pos + 1] = parent]}})
             ELSE [heap EXCEPT ![pos + 1] = newitem]
    ELSE [heap EXCEPT ![pos + 1] = newitem]

RECURSIVE SiftUp(_, _, _, _, _)
SiftUp(ns, heap, newitem, startpos, pos) ==
    LET endpos == Len(heap)
        leftpos == 2 * pos + 1
        rightpos == leftpos + 1
        childpos ==
            IF rightpos < endpos
               /\ ~NodeLess(ns, heap[leftpos + 1], heap[rightpos + 1])
            THEN rightpos ELSE leftpos
    IN  IF leftpos < endpos
        THEN Only({SiftUp(ns, moved, newitem, startpos, c) :
                     moved \in {[heap EXCEPT ![pos + 1] = heap[childpos + 1]]},
                     c \in {childpos}})
        ELSE SiftDown(ns, heap, newitem, startpos, pos)

\* frontier.put(node)
HeapPush(ns, heap, item) ==
    SiftDown(ns, Append(heap, item), item, 0, Len(heap))

\* frontier.get(): the node returned and the heap left behind.
HeapPop(ns, heap) ==
    LET lastelt == heap[Len(heap)]
        rest == SubSeq(heap, 1, Len(heap) - 1)
    IN  IF rest # <<>>
        THEN [item |-> heap[1], heap |-> SiftUp(ns, rest, lastelt, 0, 0)]
        ELSE [item |-> lastelt, heap |-> rest]

(***************************************************************************)
(* Tic-Tac-Total (t3_state.T3State, not part of the sources): a 3 x 3      *)
(* board of numbers, 0 for an open tile.  The odds player places 1, 3, 5,  *)
(* the evens player 2, 4, 6; a row, column or diagonal summing to          *)
(* WIN_TARGET wins for the player who completed it, a full board without   *)
(* one is a tie.  A T3Action is <<col, row, move>>; actions are ordered by *)
(* column, then row, then move, and get_transitions lists them in that     *)
(* order.                                                                  *)
(***************************************************************************)
MAX_MOVE == 6
WIN_TARGET == 13
BOARD_SIZE == 3

\* Bounds of the opening positions explored: the number of moves already
\* made (odds first, on corner tiles) and the largest number placed so far.
OpeningPlies == 3
OpeningMaxMove == 2

T3Cells == (0 .. BOARD_SIZE - 1) \X (0 .. BOARD_SIZE - 1)

\* The tiles in the order (col, row).
T3CellSeq ==
    [i \in 1 .. BOARD_SIZE * BOARD_SIZE |->
        <<(i - 1) \div BOARD_SIZE, (i - 1) % BOARD_SIZE>>]

T3Lines ==
    {[i \in 1 .. BOARD_SIZE |-> <<i - 1, r>>] : r \in 0 .. BOARD_SIZE - 1}
    \cup {[i \in 1 .. BOARD_SIZE |-> <<c, i - 1>>] : c \in 0 .. BOARD_SIZE - 1}
    \cup {[i \in 1 .. BOARD_SIZE |-> <<i - 1, i - 1>>],
          [i \in 1 .. BOARD_SIZE |-> <<i - 1, BOARD_SIZE - i>>]}

RECURSIVE LineSum(_, _, _)
LineSum(board, line, k) ==
    IF k > Len(line) THEN 0 ELSE board[line[k]] + LineSum(board, line, k + 1)

T3State(odd_turn, board) == [odd_turn |-> odd_turn, board |-> board]

is_win(state) == \E line \in T3Lines : LineSum(state.board, line, 1) = WIN_TARGET

is_tie(state) ==
    /\ \A c \in T3Cells : state.board[c] # 0
    /\ ~is_win(state)

is_terminal(state) == is_win(state) \/ is_tie(state)

get_moves(state) ==
    SelectSeq([m \in 1 .. MAX_MOVE |-> m],
              LAMBDA m : (m % 2 = 1) = state.odd_turn)

get_open_tiles(state) ==
    SelectSeq(T3CellSeq, LAMBDA c : state.board[c] = 0)

\* The actions of get_transitions, in the order they are generated.
T3Actions(state) ==
    LET tiles == get_open_tiles(state)
        moves == get_moves(state)
    IN  [k \in 1 .. Len(tiles) * Len(moves) |->
            <<tiles[((k - 1) \div Len(moves)) + 1][1],
              tiles[((k - 1) \div Len(moves)) + 1][2],
              moves[((k - 1) % Len(moves)) + 1]>>]

get_next_state(state, action) ==
    T3State(~state.odd_turn,
            [state.board EXCEPT ![<<action[1], action[2]>>] = action[3]])

\* T3Action.__lt__
T3ActionLess(a, b) ==
    IF a[1] # b[1] THEN a[1] < b[1]
    ELSE IF a[2] # b[2] THEN a[2] < b[2]
    ELSE a[3] < b[3]

(***************************************************************************)
(* t3_player: alpha-beta minimax.  float("-inf") and float("inf") are      *)
(* NegInf and PosInf, below and above every utility.  None is NoAction.    *)
(***************************************************************************)
NegInf == -2
PosInf == 2
NoAction == <<>>

Decision(value, selected_action, depth) ==
    [value |-> value, selected_action |-> selected_action, depth |-> depth]

should_update(self, new_value, action, new_depth, is_odd_turn) ==
    IF self.value # new_value
    THEN IF is_odd_turn THEN new_value > self.value
         ELSE new_value < self.value
    ELSE IF self.depth # new_depth THEN new_depth < self.depth
    ELSE IF self.selected_action # NoAction /\ action # NoAction
         THEN T3ActionLess(action, self.selected_action)
    ELSE FALSE

utility(state, is_odd_turn) ==
    IF is_tie(state) THEN 0
    ELSE IF is_odd_turn THEN -1 ELSE 1

Larger(a, b) == IF a >= b THEN a ELSE b

Smaller(a, b) == IF a <= b THEN a ELSE b

RECURSIVE determine_optimal_action(_, _, _, _, _)
RECURSIVE TransitionLoop(_, _, _, _, _, _, _, _)

\* Lines 66-80: the for loop from the k-th transition on.
TransitionLoop(state, actions, k, alpha, beta, is_odd_turn, depth, current) ==
    IF k > Len(actions) THEN current
    ELSE Only({
        LET updated ==
                IF should_update(current, next_move_decision.value,
                                 actions[k], next_move_decision.depth,
                                 is_odd_turn)
                THEN Decision(next_move_decision.value, actions[k],
                              next_move_decision.depth)
                ELSE current
            alpha2 == IF is_odd_turn THEN Larger(alpha, updated.value)
                      ELSE alpha
            beta2 == IF is_odd_turn THEN beta
                     ELSE Smaller(beta, updated.value)
        IN  IF beta2 <= alpha2 THEN updated
            ELSE TransitionLoop(state, actions, k + 1, alpha2, beta2,
                                is_odd_turn, depth, updated) :
        next_move_decision \in
            {determine_optimal_action(get_next_state(state, actions[k]),
                                      alpha, beta, ~is_odd_turn, depth + 1)}})

\* determine_optimal_action with the two infinities of the running
\* decision (line 64) exchanged.
determine_optimal_action_swapped(state, alpha, beta, is_odd_turn, depth) ==
    IF is_terminal(state)
    THEN Decision(utility(state, is_odd_turn), NoAction, depth)
    ELSE TransitionLoop(state, T3Actions(state), 1, alpha, beta, is_odd_turn,
                        depth,
                        Decision(IF is_odd_turn THEN PosInf ELSE NegInf,
                                 NoAction, depth))

determine_optimal_action(state, alpha, beta, is_odd_turn, depth) ==
    IF is_terminal(state)
    THEN Decision(utility(state, is_odd_turn), NoAction, depth)
    ELSE TransitionLoop(state, T3Actions(state), 1, alpha, beta, is_odd_turn,
                        depth,
                        Decision(IF is_odd_turn THEN NegInf ELSE PosInf,
                                 NoAction, depth))

choose(state) ==
    determine_optimal_action(state, NegInf, PosInf, TRUE, 0).selected_action

(***************************************************************************)
(* edit_dist_utils.  A str is a sequence of characters; Python's s[i - 1]  *)
(* is s[i] here.  A table is a list of rows, table[i][j] with i in         *)
(* 0 .. len(row_str) and j in 0 .. len(col_str).                           *)
(***************************************************************************)
\* Bound of the strings explored: their length, over the characters of
\* Alphabet.
MaxStrLen == 3

Alphabet == {"a", "b", "c"}

Strings == UNION {[1 .. n -> Alphabet] : n \in 0 .. MaxStrLen}

Min2(a, b) == IF a <= b THEN a ELSE b

\* Lines 30-40: the table of zeros with its first column and row filled.
InitialTable(rows, cols) ==
    [i \in 0 .. rows - 1 |->
        [j \in 0 .. cols - 1 |-> IF j = 0 THEN i ELSE IF i = 0 THEN j ELSE 0]]

\* Lines 45-56: the value assigned to table[i][j].
CellValue(row_str, col_str, table, i, j) ==
    IF row_str[i] = col_str[j]
    THEN table[i - 1][j - 1]
    ELSE LET least == 1 + Min2(table[i - 1][j],
                               Min2(table[i][j - 1], table[i - 1][j - 1]))
         IN  IF /\ i > 1
                /\ j > 1
                /\ row_str[i] = col_str[j - 1]
                /\ row_str[i - 1] = col_str[j]
             THEN Min2(least, table[i - 2][j - 2] + 1)
             ELSE least

\* Lines 43-56: the two nested loops, from cell (i, j) on.
RECURSIVE FillTable(_, _, _, _, _)
FillTable(row_str, col_str, table, i, j) ==
    IF i > Len(row_str) THEN table
    ELSE IF j > Len(col_str)
         THEN FillTable(row_str, col_str, table, i + 1, 1)
    ELSE FillTable(row_str, col_str,
                   [table EXCEPT ![i][j] =
                       CellValue(row_str, col_str, table, i, j)],
                   i, j + 1)

get_edit_dist_table(row_str, col_str) ==
    FillTable(row_str, col_str,
              InitialTable(Len(row_str) + 1, Len(col_str) + 1), 1, 1)

\* get_edit_dist_table(s0, s1)[-1][-1]
edit_distance(s0, s1) == get_edit_dist_table(s0, s1)[Len(s0)][Len(s1)]

RECURSIVE helper(_, _, _, _, _)
\* helper with a transposition stepping over one character of each string
\* instead of two (line 131).
helper_one_step(s0, s1, table, i, j) ==
    IF i = 0 /\ j = 0 THEN <<>>
    ELSE IF i > 0 /\ j > 0 /\ s0[i] = s1[j]
         THEN helper(s0, s1, table, i - 1, j - 1)
    ELSE IF /\ i > 1
            /\ j > 1
            /\ s0[i] = s1[j - 1]
            /\ s0[i - 1] = s1[j]
            /\ table[i][j] = table[i - 2][j - 2] + 1
         THEN <<"T">> \o helper(s0, s1, table, i - 1, j - 1)
    ELSE IF i > 0 /\ j > 0 /\ table[i][j] = table[i - 1][j - 1] + 1
         THEN <<"R">> \o helper(s0, s1, table, i - 1, j - 1)
    ELSE IF i > 0 /\ table[i][j] = table[i - 1][j] + 1
         THEN <<"D">> \o helper(s0, s1, table, i - 1, j)
    ELSE <<"I">> \o helper(s0, s1, table, i, j - 1)

helper(s0, s1, table, i, j) ==
    IF i = 0 /\ j = 0 THEN <<>>
    ELSE IF i > 0 /\ j > 0 /\ s0[i] = s1[j]
         THEN helper(s0, s1, table, i - 1, j - 1)
    ELSE IF /\ i > 1
            /\ j > 1
            /\ s0[i] = s1[j - 1]
            /\ s0[i - 1] = s1[j]
            /\ table[i][j] = table[i - 2][j - 2] + 1
         THEN <<"T">> \o helper(s0, s1, table, i - 2, j - 2)
    ELSE IF i > 0 /\ j > 0 /\ table[i][j] = table[i - 1][j - 1] + 1
         THEN <<"R">> \o helper(s0, s1, table, i - 1, j - 1)
    ELSE IF i > 0 /\ table[i][j] = table[i - 1][j] + 1
         THEN <<"D">> \o helper(s0, s1, table, i - 1, j)
    ELSE <<"I">> \o helper(s0, s1, table, i, j - 1)

get_transformation_list_with_table(s0, s1, table) ==
    helper(s0, s1, table, Len(s0), Len(s1))

get_transformation_list(s0, s1) ==
    get_transformation_list_with_table(s0, s1, get_edit_dist_table(s0, s1))

(***************************************************************************)
(* pathfind.  One step per iteration of the loop `while not                *)
(* frontier.empty()`.  pops, expanded and queries record what the run has  *)
(* done: the nodes popped, the states inserted into closed_list, and the   *)
(* number of calls of problem.get_transitions.  frontier.get() blocks      *)
(* while the queue is empty, hence the guard frontier # <<>> of a pop.     *)
(***************************************************************************)
VARIABLES problem, nodes, frontier, closed_list, expanding, pc, solution,
          pops, expanded, queries

\* A game of T3 in which the agent moves by choose: the state choose is
\* called on, the action it last returned, and whose step is next.
VARIABLES t3_state, selected, t3_pc

\* A use of edit_dist_utils on two strings: the strings, the results of
\* edit_distance and of get_transformation_list, and which call is next.
VARIABLES str0, str1, distance, transformations, ed_pc

pathfind_vars == <<problem, nodes, frontier, closed_list, expanding, pc,
                   solution, pops, expanded, queries>>

t3_vars == <<t3_state, selected, t3_pc>>

ed_vars == <<str0, str1, distance, transformations, ed_pc>>

vars == <<pathfind_vars, t3_vars, ed_vars>>

NoSolution == [returned |-> "nothing", actions |-> <<>>]

\* Before the call pathfind(problem) there is no problem yet.
NoProblem == [loc |-> <<>>, targets |-> {}, walls |-> {}, cost |-> <<>>]

StateOf(n) == <<n.loc, n.targets>>

\* Mutant of empty: the loop condition never fails (`while True`).
empty_never(heap) == FALSE

\* Line 105: frontier.empty()
empty(heap) == heap = <<>>

\* Mutant of InClosed: popped nodes are never recognised as closed.
InClosed_never(state, closed) == FALSE

\* Line 110: (current_loc, targets_left) in closed_list
InClosed(state, closed) == state \in closed

\* Line 120: not targets_left
IsGoal(targets_left) == targets_left = {}

\* Mutant of _get_solution: the walk stops after the root instead of at it,
\* so the root's action marker is part of the result.
RECURSIVE _get_solution_with_root(_, _)
_get_solution_with_root(ns, i) ==
    IF i # 0
    THEN Append(_get_solution_with_root(ns, ns[i].parent), ns[i].action)
    ELSE <<>>

\* _get_solution without soln.reverse() (line 73).
RECURSIVE _get_solution_unreversed(_, _)
_get_solution_unreversed(ns, i) ==
    IF ns[i].parent # 0
    THEN <<ns[i].action>> \o _get_solution_unreversed(ns, ns[i].parent)
    ELSE <<>>

RECURSIVE _get_solution(_, _)
_get_solution(ns, i) ==
    IF ns[i].parent # 0
    THEN Append(_get_solution(ns, ns[i].parent), ns[i].action)
    ELSE <<>>

\* Mutant of PushChildren: a closed child ends the for loop (`break` for
\* `continue`).
RECURSIVE PushChildren_break(_, _, _, _, _, _, _)
PushChildren_break(p, ns, heap, closed, cur, transitions, k) ==
    IF k > Len(transitions) THEN [nodes |-> ns, frontier |-> heap]
    ELSE LET action == transitions[k].action
             new_loc == transitions[k].next_loc
             new_targets_left == ns[cur].targets \ transitions[k].targets_hit
             g_new == ns[cur].g + get_transition_cost(p, action, ns[cur].loc)
             h_new == total_target_distance(new_loc, new_targets_left)
             f_new == g_new + h_new
             child_node == SearchTreeNode(f_new, h_new, g_new, new_loc,
                                          new_targets_left, action, cur)
             ns2 == Append(ns, child_node)
         IN  IF <<new_loc, new_targets_left>> \in closed
             THEN [nodes |-> ns, frontier |-> heap]
             ELSE Only({PushChildren_break(p, put[1], put[2], closed, cur,
                                           transitions, k + 1) :
                          put \in {<<ns2, HeapPush(ns2, heap, Len(ns2))>>}})

\* Mutant of PushChildren: children are pushed whether or not their state
\* is closed (lines 132-133 removed).
RECURSIVE PushChildren_unfiltered(_, _, _, _, _, _, _)
PushChildren_unfiltered(p, ns, heap, closed, cur, transitions, k) ==
    IF k > Len(transitions) THEN [nodes |-> ns, frontier |-> heap]
    ELSE LET action == transitions[k].action
             new_loc == transitions[k].next_loc
             new_targets_left == ns[cur].targets \ transitions[k].targets_hit
             g_new == ns[cur].g + get_transition_cost(p, action, ns[cur].loc)
             h_new == total_target_distance(new_loc, new_targets_left)
             f_new == g_new + h_new
             child_node == SearchTreeNode(f_new, h_new, g_new, new_loc,
                                          new_targets_left, action, cur)
             ns2 == Append(ns, child_node)
         IN  Only({PushChildren_unfiltered(p, put[1], put[2], closed, cur,
                                           transitions, k + 1) :
                     put \in {<<ns2, HeapPush(ns2, heap, Len(ns2))>>}})

\* Lines 128-140 for transitions k .. Len(transitions) of the node at index
\* cur: the nodes and the frontier after the rest of the for loop.
RECURSIVE PushChildren(_, _, _, _, _, _, _)
PushChildren(p, ns, heap, closed, cur, transitions, k) ==
    IF k > Len(transitions) THEN [nodes |-> ns, frontier |-> heap]
    ELSE LET action == transitions[k].action
             new_loc == transitions[k].next_loc
             new_targets_left == ns[cur].targets \ transitions[k].targets_hit
             g_new == ns[cur].g + get_transition_cost(p, action, ns[cur].loc)
             h_new == total_target_distance(new_loc, new_targets_left)
             f_new == g_new + h_new
             child_node == SearchTreeNode(f_new, h_new, g_new, new_loc,
                                          new_targets_left, action, cur)
             ns2 == Append(ns, child_node)
         IN  IF <<new_loc, new_targets_left>> \in closed
             THEN PushChildren(p, ns, heap, closed, cur, transitions, k + 1)
             ELSE Only({PushChildren(p, put[1], put[2], closed, cur,
                                     transitions, k + 1) :
                          put \in {<<ns2, HeapPush(ns2, heap, Len(ns2))>>}})

EmptyBoard == [c \in T3Cells |-> 0]

\* No game is being played.
T3Idle ==
    /\ t3_state = T3State(TRUE, EmptyBoard)
    /\ selected = NoAction
    /\ t3_pc = "idle"

\* No strings are being compared.
EdIdle ==
    /\ str0 = <<>>
    /\ str1 = <<>>
    /\ distance = 0
    /\ transformations = <<>>
    /\ ed_pc = "idle"

Init ==
    /\ T3Idle
    /\ EdIdle
    /\ problem = NoProblem
    /\ nodes = <<>>
    /\ frontier = <<>>
    /\ closed_list = {}
    /\ expanding = 0
    /\ pc = "INITIAL"
    /\ solution = NoSolution
    /\ pops = <<>>
    /\ expanded = <<>>
    /\ queries = 0

\* Lines 76 and 95-103: pathfind is called on a problem and pushes the root.
Setup ==
    /\ pc = "INITIAL"
    /\ problem' \in Problems
    /\ LET start_loc == get_initial_loc(problem')
           start_targets == get_initial_targets(problem')
           start_h == total_target_distance(start_loc, start_targets)
           start_node == SearchTreeNode(start_h, start_h, 0, start_loc,
                                        start_targets, "", 0)
       IN  /\ nodes' = <<start_node>>
           /\ frontier' = HeapPush(<<start_node>>, <<>>, 1)
    /\ closed_list' = {}
    /\ pc' = "RUNNING"
    /\ UNCHANGED <<expanding, solution, pops, expanded, queries, t3_vars,
                   ed_vars>>

\* Lines 106-111: the popped node's state is closed already.
Discard ==
    /\ pc = "RUNNING"
    /\ ~empty(frontier)
    /\ frontier # <<>>
    /\ \E got \in {HeapPop(nodes, frontier)} :
           /\ InClosed(StateOf(nodes[got.item]), closed_list)
           /\ expanding' = got.item
           /\ frontier' = got.heap
           /\ pops' = Append(pops, got.item)
    /\ UNCHANGED <<problem, nodes, closed_list, pc, solution, expanded,
                   queries, t3_vars, ed_vars>>

\* Lines 106-125: the popped node has no targets left.
Goal ==
    /\ pc = "RUNNING"
    /\ ~empty(frontier)
    /\ frontier # <<>>
    /\ \E got \in {HeapPop(nodes, frontier)} :
           /\ ~InClosed(StateOf(nodes[got.item]), closed_list)
           /\ IsGoal(nodes[got.item].targets)
           /\ expanding' = got.item
           /\ frontier' = got.heap
           /\ pops' = Append(pops, got.item)
           /\ closed_list' = closed_list \cup {StateOf(nodes[got.item])}
           /\ expanded' = Append(expanded, StateOf(nodes[got.item]))
           /\ solution' = [returned |-> "list",
                           actions |-> _get_solution(nodes, got.item)]
    /\ pc' = "SUCCESS"
    /\ UNCHANGED <<problem, nodes, queries, t3_vars, ed_vars>>

\* Lines 106-140: the popped node is expanded.
Expand ==
    /\ pc = "RUNNING"
    /\ ~empty(frontier)
    /\ frontier # <<>>
    /\ \E got \in {HeapPop(nodes, frontier)} :
        \E cur \in {nodes[got.item]} :
           /\ ~InClosed(StateOf(cur), closed_list)
           /\ ~IsGoal(cur.targets)
           /\ \E closed \in {closed_list \cup {StateOf(cur)}} :
              \E transitions \in
                    {get_transitions(problem, cur.loc, cur.targets)} :
              \E after \in {PushChildren(problem, nodes, got.heap, closed,
                                         got.item, transitions, 1)} :
                 /\ closed_list' = closed
                 /\ nodes' = after.nodes
                 /\ frontier' = after.frontier
           /\ expanding' = got.item
           /\ pops' = Append(pops, got.item)
           /\ expanded' = Append(expanded, StateOf(cur))
           /\ queries' = queries + 1
    /\ UNCHANGED <<problem, pc, solution, t3_vars, ed_vars>>

\* Lines 105 and 143: the frontier is empty, return None.
Exhausted ==
    /\ pc = "RUNNING"
    /\ empty(frontier)
    /\ pc' = "EXHAUSTED"
    /\ solution' = [returned |-> "None", actions |-> <<>>]
    /\ UNCHANGED <<problem, nodes, frontier, closed_list, expanding, pops,
                   expanded, queries, t3_vars, ed_vars>>

Next == Setup \/ Discard \/ Goal \/ Expand \/ Exhausted

Spec == Init /\ [][Next]_vars

\* The loop is sequential and runs until it returns.
LiveSpec == Spec /\ WF_vars(Next)

(***************************************************************************)
(* A game of T3 from an opening position.  The agent asks choose for its   *)
(* move and plays it; the opponent replies with any legal move.            *)
(***************************************************************************)
T3Corners ==
    {c \in T3Cells : c[1] \in {0, BOARD_SIZE - 1} /\ c[2] \in {0, BOARD_SIZE - 1}}

RECURSIVE Openings(_)
Openings(plies) ==
    IF plies = 0 THEN {T3State(TRUE, EmptyBoard)}
    ELSE UNION {
            {get_next_state(s, T3Actions(s)[k]) :
                k \in {j \in DOMAIN T3Actions(s) :
                         /\ <<T3Actions(s)[j][1], T3Actions(s)[j][2]>>
                               \in T3Corners
                         /\ T3Actions(s)[j][3] <= OpeningMaxMove}} :
            s \in {o \in Openings(plies - 1) : ~is_terminal(o)}}

T3Init ==
    /\ EdIdle
    /\ t3_state \in Openings(OpeningPlies)
    /\ selected = NoAction
    /\ t3_pc = "choose"
    /\ problem = NoProblem
    /\ nodes = <<>>
    /\ frontier = <<>>
    /\ closed_list = {}
    /\ expanding = 0
    /\ pc = "INITIAL"
    /\ solution = NoSolution
    /\ pops = <<>>
    /\ expanded = <<>>
    /\ queries = 0

\* choose(state): lines 37-44.
AgentChoose ==
    /\ t3_pc = "choose"
    /\ selected' = choose(t3_state)
    /\ t3_pc' = IF is_terminal(t3_state) THEN "over" ELSE "play"
    /\ UNCHANGED <<t3_state, pathfind_vars, ed_vars>>

\* The agent makes the move choose returned.
AgentPlay ==
    /\ t3_pc = "play"
    /\ t3_state' = get_next_state(t3_state, selected)
    /\ t3_pc' = "reply"
    /\ UNCHANGED <<selected, pathfind_vars, ed_vars>>

\* The opponent makes any of its moves.
OpponentReply ==
    /\ t3_pc = "reply"
    /\ ~is_terminal(t3_state)
    /\ \E k \in DOMAIN T3Actions(t3_state) :
          t3_state' = get_next_state(t3_state, T3Actions(t3_state)[k])
    /\ t3_pc' = "choose"
    /\ UNCHANGED <<selected, pathfind_vars, ed_vars>>

\* The agent's move ended the game; choose is still asked, on a terminal.
AgentEnded ==
    /\ t3_pc = "reply"
    /\ is_terminal(t3_state)
    /\ t3_pc' = "choose"
    /\ UNCHANGED <<t3_state, selected, pathfind_vars, ed_vars>>

T3Next == AgentChoose \/ AgentPlay \/ OpponentReply \/ AgentEnded

T3Spec == T3Init /\ [][T3Next]_vars

(***************************************************************************)
(* A use of edit_dist_utils: edit_distance and then                        *)
(* get_transformation_list are called on two strings.                      *)
(***************************************************************************)
EdInit ==
    /\ str0 \in Strings
    /\ str1 \in Strings
    /\ distance = 0
    /\ transformations = <<>>
    /\ ed_pc = "edit_distance"
    /\ T3Idle
    /\ problem = NoProblem
    /\ nodes = <<>>
    /\ frontier = <<>>
    /\ closed_list = {}
    /\ expanding = 0
    /\ pc = "INITIAL"
    /\ solution = NoSolution
    /\ pops = <<>>
    /\ expanded = <<>>
    /\ queries = 0

\* edit_distance(s0, s1): lines 60-77.
CallEditDistance ==
    /\ ed_pc = "edit_distance"
    /\ distance' = edit_distance(str0, str1)
    /\ ed_pc' = "get_transformation_list"
    /\ UNCHANGED <<str0, str1, transformations, pathfind_vars, t3_vars>>

\* get_transformation_list(s0, s1): lines 80-110.
CallGetTransformationList ==
    /\ ed_pc = "get_transformation_list"
    /\ transformations' = get_transformation_list(str0, str1)
    /\ ed_pc' = "done"
    /\ UNCHANGED <<str0, str1, distance, pathfind_vars, t3_vars>>

EdNext == CallEditDistance \/ CallGetTransformationList

EdSpec == EdInit /\ [][EdNext]_vars

(***************************************************************************)
(* The search problem an oracle poses, independently of pathfind: the      *)
(* graph on states <<location, remaining targets>> whose edges are the     *)
(* oracle's transitions, and the least total cost from each state to a     *)
(* state with no remaining target (Unreachable when there is none).        *)
(***************************************************************************)
SearchStates(p) == (Locs \ p.walls) \X SUBSET p.targets

Edges(p, s) ==
    LET transitions == get_transitions(p, s[1], s[2])
    IN  {[to |-> <<transitions[i].next_loc,
                   s[2] \ transitions[i].targets_hit>>,
          cost |-> get_transition_cost(p, transitions[i].action, s[1])] :
            i \in DOMAIN transitions}

Unreachable(p) == Cardinality(SearchStates(p)) * MaxCost + 1

Least(S) == CHOOSE x \in S : \A y \in S : x <= y

RECURSIVE Relax(_, _)
Relax(p, d) ==
    LET d2 == [s \in SearchStates(p) |->
                 Least({d[s]} \cup {e.cost + d[e.to] : e \in Edges(p, s)})]
    IN  IF d2 = d THEN d ELSE Relax(p, d2)

\* TrueCost(p)[s]: the least cost of clearing every target from state s.
TrueCost(p) ==
    Relax(p, [s \in SearchStates(p) |->
                 IF s[2] = {} THEN 0 ELSE Unreachable(p)])

InitialState(p) == <<get_initial_loc(p), get_initial_targets(p)>>

Solvable(p) == TrueCost(p)[InitialState(p)] < Unreachable(p)

\* The sum of the transition costs of the actions, taken from location l.
RECURSIVE PathCost(_, _, _)
PathCost(p, l, actions) ==
    IF actions = <<>> THEN 0
    ELSE get_transition_cost(p, Head(actions), l)
            + PathCost(p, Step(l, Head(actions)), Tail(actions))

Returned == pc \in {"SUCCESS", "EXHAUSTED"}

\* No transition of the oracle is cheaper than a plain move.
NoCheapMoves(p) == \A l \in Locs : p.cost[l] >= MoveCost

(***************************************************************************)
(* C1: whenever pathfind returns an action sequence, the sum of its        *)
(* transition costs is the least total cost of any action sequence from    *)
(* the initial state to a state with no remaining target.  Stated for the  *)
(* oracles none of whose transitions is cheaper than a plain move, which   *)
(* are among the oracles with nonnegative costs.                           *)
(***************************************************************************)
C1_ReturnsMinimumCost ==
    pc = "SUCCESS" /\ NoCheapMoves(problem) =>
        PathCost(problem, get_initial_loc(problem), solution.actions)
            = TrueCost(problem)[InitialState(problem)]

(***************************************************************************)
(* C3: pathfind returns None exactly when no state with an empty target    *)
(* set is reachable from the initial state: once it has returned, the      *)
(* result is None if and only if the problem is unsolvable.                *)
(***************************************************************************)
C3_NoneIffUnsolvable ==
    Returned =>
        /\ solution.returned \in {"None", "list"}
        /\ (solution.returned = "None" <=> ~Solvable(problem))
        /\ (pc = "EXHAUSTED" <=> solution.returned = "None")

C3_Witness ==
    /\ pc = "EXHAUSTED"
    /\ solution.returned = "None"
    /\ problem.targets # {}
    /\ queries > 1

(***************************************************************************)
(* C4: the search loop terminates: every run eventually reaches SUCCESS or *)
(* EXHAUSTED, also with zero-cost transitions and cycles of locations.     *)
(***************************************************************************)
C4_Terminates == <>Returned

C4_Witness ==
    /\ Returned
    /\ \E l \in Locs : problem.cost[l] = 0
    /\ \E i, j \in DOMAIN pops :
          /\ i < j
          /\ nodes[pops[i]].loc = nodes[pops[j]].loc
          /\ nodes[pops[i]].g = nodes[pops[j]].g

(***************************************************************************)
(* C5: in a run each state is expanded at most once, so the number of      *)
(* expansions never exceeds the number of states reachable from the        *)
(* initial state.                                                          *)
(***************************************************************************)
RECURSIVE ReachableFrom(_, _)
ReachableFrom(p, S) ==
    LET S2 == S \cup UNION {{e.to : e \in Edges(p, s)} : s \in S}
    IN  IF S2 = S THEN S ELSE ReachableFrom(p, S2)

C5_ExpandedAtMostOnce ==
    /\ \A i, j \in DOMAIN expanded : i # j => expanded[i] # expanded[j]
    /\ closed_list = {expanded[i] : i \in DOMAIN expanded}
    /\ queries <= Len(expanded)
    /\ Returned =>
          Len(expanded)
             <= Cardinality(ReachableFrom(problem, {InitialState(problem)}))

\* A duplicate of an expanded state was popped and dropped.
C5_Witness ==
    /\ Returned
    /\ Len(pops) > Len(expanded)
    /\ Len(expanded) > 2

(***************************************************************************)
(* C6: the heuristic is admissible: at every node the search pops, h is at *)
(* most the least total cost of clearing the remaining targets from the    *)
(* node's state.  Stated for the grid oracles none of whose transitions is *)
(* cheaper than a plain move.                                              *)
(***************************************************************************)
C6_Admissible ==
    expanding # 0 /\ NoCheapMoves(problem) =>
        total_target_distance(nodes[expanding].loc, nodes[expanding].targets)
            <= TrueCost(problem)[StateOf(nodes[expanding])]

(***************************************************************************)
(* C7: the heuristic is consistent: for every transition the oracle offers *)
(* at the state of a popped node, the heuristic values of the two states   *)
(* differ by at most the cost of the transition.  Stated for the grid      *)
(* oracles none of whose transitions is cheaper than a plain move.         *)
(***************************************************************************)
C7_Consistent ==
    expanding # 0 /\ NoCheapMoves(problem) =>
        LET s == StateOf(nodes[expanding])
        IN  \A e \in Edges(problem, s) :
                Abs(total_target_distance(s[1], s[2])
                      - total_target_distance(e.to[1], e.to[2])) <= e.cost

(***************************************************************************)
(* C8: when the initial target set is empty, pathfind returns the empty    *)
(* action sequence on the first iteration of the loop, without asking the  *)
(* oracle for any transition.                                              *)
(***************************************************************************)
C8_NoTargets ==
    pc # "INITIAL" /\ get_initial_targets(problem) = {} =>
        /\ queries = 0
        /\ pc = "RUNNING" => pops = <<>> /\ ~empty(frontier)
        /\ pc # "EXHAUSTED"
        /\ pc = "SUCCESS" =>
              /\ solution = [returned |-> "list", actions |-> <<>>]
              /\ Len(pops) = 1
              /\ PathCost(problem, get_initial_loc(problem),
                          solution.actions) = 0

C8_Witness ==
    /\ get_initial_targets(problem) = {}
    /\ pc = "SUCCESS"
    /\ LegalActions(problem, get_initial_loc(problem)) # <<>>

(***************************************************************************)
(* C10: every pop takes from the frontier a node of least f and, among the *)
(* nodes of least f, the one that was inserted first (nodes are numbered   *)
(* in the order of their insertion).                                       *)
(***************************************************************************)
InFrontier == {frontier[k] : k \in DOMAIN frontier}

C10_PopsByFThenInsertion ==
    [][pops' # pops =>
         \A j \in InFrontier :
            \/ nodes[expanding'].f < nodes[j].f
            \/ nodes[expanding'].f = nodes[j].f /\ expanding' <= j]_vars

(***************************************************************************)
(* The value of a T3 position under optimal play by both sides, for the    *)
(* player choose was called for (is_max: that player is to move).          *)
(* AtLeast(state, is_max, v): that player can secure a utility >= v.       *)
(***************************************************************************)
RECURSIVE AtLeast(_, _, _)
AtLeast(state, is_max, v) ==
    IF is_terminal(state) THEN utility(state, is_max) >= v
    ELSE IF is_max
         THEN \E k \in DOMAIN T3Actions(state) :
                 AtLeast(get_next_state(state, T3Actions(state)[k]), FALSE, v)
         ELSE \A k \in DOMAIN T3Actions(state) :
                 AtLeast(get_next_state(state, T3Actions(state)[k]), TRUE, v)

MinimaxValue(state, is_max) ==
    IF AtLeast(state, is_max, 1) THEN 1
    ELSE IF AtLeast(state, is_max, 0) THEN 0
    ELSE -1

(***************************************************************************)
(* C2: for every non-terminal state, the action choose returns has the     *)
(* same minimax utility as the best action of the player to move: playing  *)
(* it leads to a position whose value equals the value of the state.       *)
(***************************************************************************)
C2_ChoosesBestUtility ==
    t3_pc = "play" =>
        MinimaxValue(get_next_state(t3_state, selected), FALSE)
            = MinimaxValue(t3_state, TRUE)

(***************************************************************************)
(* The tie-breaking ladder of choose's docstring, on the whole game tree.  *)
(* Both players rank outcomes of equal utility by the smaller depth, so    *)
(* the terminal that play by the ladder reaches from a position of value v *)
(* is the nearest terminal reachable through positions of value v.         *)
(* TerminalWithin: such a terminal lies at a depth <= limit, for a state   *)
(* of value v at the given depth.                                          *)
(***************************************************************************)
HasValue(state, is_max, v) ==
    AtLeast(state, is_max, v) /\ ~AtLeast(state, is_max, v + 1)

RECURSIVE TerminalWithin(_, _, _, _, _)
TerminalWithin(state, is_max, v, depth, limit) ==
    IF is_terminal(state) THEN depth <= limit
    ELSE /\ depth < limit
         /\ \E k \in DOMAIN T3Actions(state) :
               \E next \in {get_next_state(state, T3Actions(state)[k])} :
                  /\ depth + 1 = limit => is_terminal(next)
                  /\ HasValue(next, ~is_max, v)
                  /\ TerminalWithin(next, ~is_max, v, depth + 1, limit)

\* The depth of the terminal that play by the ladder reaches.
TerminalDepth(state, is_max, v, depth) ==
    CHOOSE d \in depth .. depth + BOARD_SIZE * BOARD_SIZE :
        /\ TerminalWithin(state, is_max, v, depth, d)
        /\ ~TerminalWithin(state, is_max, v, depth, d - 1)

(***************************************************************************)
(* C11: in a non-terminal state, choose returns the action the ladder      *)
(* selects: it has the best utility; no action of that utility reaches its *)
(* terminal at a smaller depth; and every other action of that utility and *)
(* depth comes later in the T3Action order.                                *)
(***************************************************************************)
C11_ChoosesByLadder ==
    t3_pc = "play" =>
        \E v \in {MinimaxValue(t3_state, TRUE)} :
            /\ HasValue(get_next_state(t3_state, selected), FALSE, v)
            /\ \E d \in {TerminalDepth(get_next_state(t3_state, selected),
                                       FALSE, v, 1)} :
                  \A k \in DOMAIN T3Actions(t3_state) :
                     \E other \in {get_next_state(t3_state,
                                                  T3Actions(t3_state)[k])} :
                        (/\ T3Actions(t3_state)[k] # selected
                         /\ HasValue(other, FALSE, v))
                        => /\ ~TerminalWithin(other, FALSE, v, 1, d - 1)
                           /\ TerminalWithin(other, FALSE, v, 1, d)
                                 => T3ActionLess(selected,
                                                 T3Actions(t3_state)[k])

(***************************************************************************)
(* C12: choose returns None exactly when the state it is given is terminal *)
(* (a win or a tie); in a non-terminal state that has transitions it       *)
(* returns one of the actions get_transitions enumerates.                  *)
(***************************************************************************)
C12_NoneIffTerminal ==
    t3_pc \in {"play", "over"} =>
        /\ selected = NoAction <=> is_terminal(t3_state)
        /\ (~is_terminal(t3_state) /\ T3Actions(t3_state) # <<>>)
              => \E k \in DOMAIN T3Actions(t3_state) :
                    selected = T3Actions(t3_state)[k]

\* choose has answered None on a finished game, and an action before that.
C12_Witness ==
    /\ t3_pc = "over"
    /\ is_terminal(t3_state)
    /\ selected = NoAction
    /\ \E c \in T3Cells : t3_state.board[c] # 0

(***************************************************************************)
(* The primitive manipulations of a string: the strings one insertion,     *)
(* deletion, replacement or transposition of two adjacent characters away, *)
(* no longer than MaxStrLen.                                               *)
(***************************************************************************)
Manipulations(s) ==
    {SubSeq(s, 1, i) \o <<c>> \o SubSeq(s, i + 1, Len(s)) :
        i \in {k \in 0 .. Len(s) : Len(s) < MaxStrLen}, c \in Alphabet}
    \cup {SubSeq(s, 1, i - 1) \o SubSeq(s, i + 1, Len(s)) : i \in 1 .. Len(s)}
    \cup {[s EXCEPT ![i] = c] : i \in 1 .. Len(s), c \in Alphabet}
    \cup {[s EXCEPT ![i] = s[i + 1], ![i + 1] = s[i]] : i \in 1 .. Len(s) - 1}

\* The least number of manipulations, one after another, that turn a
\* string of reached into target; reached holds the strings k away.
RECURSIVE MinimalManipulations(_, _, _)
MinimalManipulations(reached, target, k) ==
    IF target \in reached THEN k
    ELSE MinimalManipulations(
            reached \cup UNION {Manipulations(s) : s \in reached},
            target, k + 1)

(***************************************************************************)
(* C13: edit_distance(s0, s1) is the minimal number of primitive           *)
(* manipulations (insertions, deletions, replacements, transpositions of   *)
(* two adjacent characters), in any sequence, that turns s0 into s1.       *)
(***************************************************************************)
C13_MinimalManipulations ==
    ed_pc # "edit_distance" =>
        distance = MinimalManipulations({str0}, str1, 0)

(***************************************************************************)
(* The walk a transformation list describes, from cell (i, j) of the table *)
(* with the list read from its k-th letter on: matching characters are     *)
(* skipped diagonally, and each letter moves to the cell its manipulation  *)
(* came from.  cur is s0 after the manipulations made so far: its first i  *)
(* characters are still those of s0, the rest is the end of s1.            *)
(* ValidWalk: every letter is applicable where it is read, no cell is      *)
(* outside the table, and the walk ends in (0, 0) with the list used up    *)
(* and s0 turned into s1.                                                  *)
(***************************************************************************)
RECURSIVE ValidWalk(_, _, _, _, _, _, _)
ValidWalk(s0, s1, list, k, i, j, cur) ==
    IF i = 0 /\ j = 0 THEN k = Len(list) + 1 /\ cur = s1
    ELSE IF i > 0 /\ j > 0 /\ s0[i] = s1[j]
         THEN ValidWalk(s0, s1, list, k, i - 1, j - 1, cur)
    ELSE /\ k <= Len(list)
         /\ \/ /\ list[k] = "R"
               /\ i > 0 /\ j > 0
               /\ ValidWalk(s0, s1, list, k + 1, i - 1, j - 1,
                            [cur EXCEPT ![i] = s1[j]])
            \/ /\ list[k] = "T"
               /\ i > 1 /\ j > 1
               /\ s0[i] = s1[j - 1] /\ s0[i - 1] = s1[j]
               /\ ValidWalk(s0, s1, list, k + 1, i - 2, j - 2,
                            [cur EXCEPT ![i] = cur[i - 1], ![i - 1] = cur[i]])
            \/ /\ list[k] = "I"
               /\ j > 0
               /\ ValidWalk(s0, s1, list, k + 1, i, j - 1,
                            SubSeq(cur, 1, i) \o <<s1[j]>>
                                \o SubSeq(cur, i + 1, Len(cur)))
            \/ /\ list[k] = "D"
               /\ i > 0
               /\ ValidWalk(s0, s1, list, k + 1, i - 1, j,
                            SubSeq(cur, 1, i - 1)
                                \o SubSeq(cur, i + 1, Len(cur)))

(***************************************************************************)
(* C14: get_transformation_list(s0, s1) is a list over R, T, I, D as long  *)
(* as edit_distance(s0, s1), and read as a walk from cell                  *)
(* (len(s0), len(s1)) to (0, 0), matching characters skipped, it is a      *)
(* valid sequence of manipulations turning s0 into s1 that never leaves    *)
(* the table.                                                              *)
(***************************************************************************)
C14_ValidTransformationList ==
    ed_pc = "done" =>
        /\ \A k \in DOMAIN transformations :
              transformations[k] \in {"R", "T", "I", "D"}
        /\ Len(transformations) = distance
        /\ distance = edit_distance(str0, str1)
        /\ ValidWalk(str0, str1, transformations, 1, Len(str0), Len(str1),
                     str0)

\* A list with a transposition and other manipulations has been returned.
C14_Witness ==
    /\ ed_pc = "done"
    /\ Len(transformations) >= 2
    /\ \E k \in DOMAIN transformations : transformations[k] = "T"
    /\ \E k \in DOMAIN transformations : transformations[k] \in {"I", "D"}

(***************************************************************************)
(* Achieves(s0, s1, table, m, i, j): manipulation m achieves the minimum   *)
(* at cell (i, j), that is table[i][j] is one more than the cell m comes   *)
(* from.                                                                   *)
(***************************************************************************)
Achieves(s0, s1, table, m, i, j) ==
    IF m = "R" THEN i > 0 /\ j > 0 /\ table[i][j] = table[i - 1][j - 1] + 1
    ELSE IF m = "T"
         THEN /\ i > 1 /\ j > 1
              /\ s0[i] = s1[j - 1] /\ s0[i - 1] = s1[j]
              /\ table[i][j] = table[i - 2][j - 2] + 1
    ELSE IF m = "I" THEN j > 0 /\ table[i][j] = table[i][j - 1] + 1
    ELSE i > 0 /\ table[i][j] = table[i - 1][j] + 1

\* The order in which ties are to be broken.
Preference == <<"R", "T", "I", "D">>

\* Along the walk of the list, each letter is the earliest manipulation
\* of Preference that achieves the minimum at its cell.
RECURSIVE TiesByPreference(_, _, _, _, _, _, _)
TiesByPreference(s0, s1, table, list, k, i, j) ==
    IF k > Len(list) \/ (i = 0 /\ j = 0) THEN TRUE
    ELSE IF i > 0 /\ j > 0 /\ s0[i] = s1[j]
         THEN TiesByPreference(s0, s1, table, list, k, i - 1, j - 1)
    ELSE /\ \E n \in DOMAIN Preference :
               /\ Preference[n] = list[k]
               /\ Achieves(s0, s1, table, list[k], i, j)
               /\ \A m \in 1 .. n - 1 :
                     ~Achieves(s0, s1, table, Preference[m], i, j)
         /\ TiesByPreference(s0, s1, table, list, k + 1,
                             IF list[k] = "I" THEN i
                             ELSE IF list[k] = "T" THEN i - 2 ELSE i - 1,
                             IF list[k] = "D" THEN j
                             ELSE IF list[k] = "T" THEN j - 2 ELSE j - 1)

(***************************************************************************)
(* C15: get_transformation_list breaks ties in the order Replacement,      *)
(* Transposition, Insertion, Deletion: at every cell of its walk where     *)
(* more than one manipulation achieves the minimum, the letter emitted is  *)
(* the earliest of R, T, I, D that does.                                   *)
(***************************************************************************)
C15_TiesByPreference ==
    ed_pc = "done" =>
        TiesByPreference(str0, str1, get_edit_dist_table(str0, str1),
                         transformations, 1, Len(str0), Len(str1))

(***************************************************************************)
(* The parent chain of node i: the indices of the nodes from the root to   *)
(* i.                                                                      *)
(***************************************************************************)
RECURSIVE ParentChain(_, _)
ParentChain(ns, i) ==
    IF ns[i].parent = 0 THEN <<i>>
    ELSE Append(ParentChain(ns, ns[i].parent), i)

\* The states in which replaying actions k .. Len(actions) from state ends:
\* one state if every action is a transition of the oracle at the state
\* where it is applied, none otherwise.
RECURSIVE ReplayEnd(_, _, _, _)
ReplayEnd(p, state, actions, k) ==
    IF k > Len(actions) THEN {state}
    ELSE UNION {ReplayEnd(p, <<t.next_loc, state[2] \ t.targets_hit>>,
                          actions, k + 1) :
                 t \in {get_transitions(p, state[1], state[2])[n] :
                          n \in {m \in DOMAIN get_transitions(p, state[1],
                                                              state[2]) :
                                   get_transitions(p, state[1], state[2])[m]
                                       .action = actions[k]}}}

(***************************************************************************)
(* C16: the action sequence pathfind returns is exactly the actions of the *)
(* nodes on the parent chain of the goal node, from the start to the goal, *)
(* without the root's action marker; replayed from the initial state, each *)
(* action is a legal transition of the oracle where it is applied, and the *)
(* replay ends in a state with no target left.                             *)
(***************************************************************************)
C16_SolutionIsParentChain ==
    pc = "SUCCESS" =>
        \E chain \in {ParentChain(nodes, expanding)} :
            /\ solution.returned = "list"
            /\ nodes[chain[1]].parent = 0
            /\ Len(solution.actions) = Len(chain) - 1
            /\ \A k \in DOMAIN solution.actions :
                  /\ solution.actions[k] = nodes[chain[k + 1]].action
                  /\ nodes[chain[k + 1]].parent = chain[k]
            /\ \E end \in ReplayEnd(problem, InitialState(problem),
                                    solution.actions, 1) :
                  /\ end[2] = {}
                  /\ end = StateOf(nodes[expanding])

\* A solution of several actions that clears several targets was returned.
C16_Witness ==
    /\ pc = "SUCCESS"
    /\ Len(solution.actions) >= 3
    /\ Cardinality(get_initial_targets(problem)) >= 2
    /\ \E k \in DOMAIN solution.actions :
          solution.actions[k] # solution.actions[1]

(***************************************************************************)
(* C17: every node placed in the frontier has f = g + h, with h the        *)
(* heuristic of its own state; the root has g = 0 and a child has its      *)
(* parent's g plus the oracle's cost of its action at the parent's         *)
(* location; so g is never negative and never decreases from a node to its *)
(* descendants.  Every node of nodes was placed in the frontier when it    *)
(* was made.                                                               *)
(***************************************************************************)
C17_NodeCosts ==
    \A i \in DOMAIN nodes :
        /\ nodes[i].f = nodes[i].g + nodes[i].h
        /\ nodes[i].h = total_target_distance(nodes[i].loc, nodes[i].targets)
        /\ nodes[i].parent = 0 => nodes[i].g = 0
        /\ nodes[i].parent # 0 =>
              nodes[i].g = nodes[nodes[i].parent].g
                             + get_transition_cost(problem, nodes[i].action,
                                                   nodes[nodes[i].parent].loc)
        /\ nodes[i].g >= 0
        /\ \A k \in DOMAIN ParentChain(nodes, i) :
              nodes[ParentChain(nodes, i)[k]].g <= nodes[i].g

\* A grandchild of the root was pushed whose path crossed a cell that does
\* not cost MoveCost.
C17_Witness ==
    \E i \in DOMAIN nodes :
        /\ Len(ParentChain(nodes, i)) >= 3
        /\ nodes[i].g # (Len(ParentChain(nodes, i)) - 1) * MoveCost
        /\ nodes[i].g > 0

(***************************************************************************)
(* C18: lazy deletion leaves the search untouched.  A pop of a node whose  *)
(* state is already in the closed set only removes that node from the      *)
(* frontier: no goal is reported, the oracle is not queried, the closed    *)
(* set does not change and nothing is pushed.  And no step pushes a child  *)
(* whose state is in the closed set.                                       *)
(***************************************************************************)
C18_LazyDeletion ==
    [][/\ (pops' # pops /\ StateOf(nodes[expanding']) \in closed_list) =>
            /\ pc' = pc
            /\ solution' = solution
            /\ queries' = queries
            /\ closed_list' = closed_list
            /\ expanded' = expanded
            /\ nodes' = nodes
            /\ {frontier'[k] : k \in DOMAIN frontier'}
                  = InFrontier \ {expanding'}
            /\ Len(frontier') = Len(frontier) - 1
       /\ \A i \in (DOMAIN nodes') \ (DOMAIN nodes) :
            /\ StateOf(nodes'[i]) \notin closed_list'
            /\ \E k \in DOMAIN frontier' : frontier'[k] = i]_vars

\* A stale node was popped, and an expansion had a transition into a
\* closed state.
C18_Witness ==
    /\ \E i, j \in DOMAIN pops :
          i < j /\ StateOf(nodes[pops[i]]) = StateOf(nodes[pops[j]])
    /\ \E i \in DOMAIN expanded :
          \E n \in DOMAIN get_transitions(problem, expanded[i][1],
                                          expanded[i][2]) :
             \E t \in {get_transitions(problem, expanded[i][1],
                                       expanded[i][2])[n]} :
                <<t.next_loc, expanded[i][2] \ t.targets_hit>>
                    \in {expanded[m] : m \in 1 .. i}

=============================================================================
